---- MODULE Spec2Model ----
(***************************************************************************)
(* A model of draw_dataset.py: the Dataset class (the point list myData,   *)
(* the parallel list of canvas item ids myPointsID, the current class, the *)
(* drag tracking) together with the Tk canvas it draws on, the two         *)
(* DoubleVar settings and the csv file it saves to and loads from.         *)
(*                                                                         *)
(* Coordinates are integers.  The number-of-points setting is a DoubleVar: *)
(* it is kept in units of 1/CountScale so that int() truncates something.  *)
(* Every callback runs to completion before the next one starts (Tk's      *)
(* event loop); an exception raised by a callback is reported by Tk and    *)
(* the loop goes on, so the outcome of a callback is recorded in err.      *)
(***************************************************************************)
EXTENDS Integers, Sequences, FiniteSets, TLC

VARIABLES
    myData,            \* list of points [x, y, color]
    myPointsID,        \* list of canvas item ids, parallel to myData
    classPoint,        \* "blue", "green", "red" or "erase"
    last_drawn_x,      \* None or Some(x)
    last_drawn_y,      \* None or Some(y)
    sigmaScatter,      \* tk.DoubleVar: spread / eraser radius
    nbrPointsScatter,  \* tk.DoubleVar: points per click, in units of 1/CountScale
    canvas,            \* the canvas: set of item ids that exist on it
    ovals,             \* the canvas: what each item that exists on it draws
    nextId,            \* the id the canvas gives to the next item it creates
    file,              \* the csv file on disk: None or Some(table)
    saved,             \* history: myData as it was when file was written
    err,               \* outcome of the last callback: "none" or the exception
    op                 \* history: the last callback, its event and what it called

vars == <<myData, myPointsID, classPoint, last_drawn_x, last_drawn_y,
          sigmaScatter, nbrPointsScatter, canvas, ovals, nextId, file, saved, err, op>>

----
\* Bounds of the exploration.

\* A callback that would create canvas items runs only while nextId <= MaxId.
MaxId == 2
\* Where the file is saved and loaded back (SpecFile), a load runs while
\* nextId <= MaxLoadId.
MaxLoadId == 6

\* Program constants.
SigmaMax == 50
PointsMax == 1000
threshold == 5
sizePoint == 2
InitSigma == 10
InitNbrPoints == 5
\* Resolution of the nbrPointsScatter DoubleVar in the model: value = n / CountScale.
CountScale == 2

----
\* Python values.

None == <<>>
Some(v) == <<v>>
Val(o) == o[1]

Max(a, b) == IF a >= b THEN a ELSE b
Min(a, b) == IF a <= b THEN a ELSE b

Colors == {"red", "green", "blue"}
Classes == Colors \cup {"erase"}

\* The colour names the canvas accepts for fill= ; anything else raises TclError.
TkColors == {"red", "green", "blue"}

\* Pointer positions delivered by the events.
Positions == { [x |-> 0, y |-> 0], [x |-> 4, y |-> 3], [x |-> 6, y |-> 0] }

\* The state of numpy's random generator when a sample is drawn.
Seeds == {0}

\* Values the user types into the two entries (nbrPoints: 1.5 or 5 when
\* CountScale = 2).
Sigmas == {-5, InitSigma}
Counts == {CountScale + 1, InitNbrPoints * CountScale}

\* Generator states and entry values of the clamping specification (SpecClamp).
ClampSeeds == {0, 1, 2}
ClampSigmas == {-5, 0, InitSigma, SigmaMax, 1000}
ClampCounts == { -7 * CountScale, 0, 1, 2 * CountScale + 1, PointsMax * CountScale - 1,
                 PointsMax * CountScale, 5000 * CountScale }

----
\* numpy.random.normal(loc, scale, size): loc + scale * z_k, z_k the k-th standard
\* normal draw after the generator state seed; skip draws were consumed before.

gauss(seed, k) == ((seed + 2 * k) % 3) - 1

normal(loc, scale, size, seed, skip) ==
    [i \in 1..size |-> loc + scale * gauss(seed, skip + i)]

----
\* The csv text written by DataFrame.to_csv and read back by pandas.read_csv.
\* A number is the sequence of its characters; a table is a sequence of rows
\* [x, y, color] of such texts under the header x,y,color.

DigitChars == <<"0", "1", "2", "3", "4", "5", "6", "7", "8", "9">>

RECURSIVE FormatNat(_)
FormatNat(n) ==
    IF n < 10 THEN <<DigitChars[n + 1]>>
    ELSE FormatNat(n \div 10) \o <<DigitChars[(n % 10) + 1]>>

FormatNum(n) == IF n < 0 THEN <<"-">> \o FormatNat(-n) ELSE FormatNat(n)

DigitVal(c) == CHOOSE d \in 0..9 : DigitChars[d + 1] = c

RECURSIVE ParseNat(_)
ParseNat(t) ==
    IF Len(t) = 0 THEN 0
    ELSE ParseNat(SubSeq(t, 1, Len(t) - 1)) * 10 + DigitVal(t[Len(t)])

ParseNum(t) == IF t[1] = "-" THEN -ParseNat(Tail(t)) ELSE ParseNat(t)

\* df['color'].replace({"red": 0, "green": 1, "blue": 2}): a value that is no key
\* of the mapping is left as it is.
EncodeMap == [red |-> 0, green |-> 1, blue |-> 2]
EncodeColor(c) == IF c \in DOMAIN EncodeMap THEN FormatNum(EncodeMap[c]) ELSE <<c>>

\* df['color'].replace({0: "red", 1: "green", 2: "blue"}): an unknown code stays
\* the number it is; "code" stands for such a number, which is no colour name.
DecodeMap == <<"red", "green", "blue">>
DecodeColorMutant(t) ==
    LET code == ParseNum(t)
    IN  IF code + 1 \in 1..3 THEN <<"red", "blue", "green">>[code + 1] ELSE "code"

DecodeColor(t) ==
    LET code == ParseNum(t)
    IN  IF code + 1 \in DOMAIN DecodeMap THEN DecodeMap[code + 1] ELSE "code"

to_csvMutant(data) ==
    [i \in 1..Len(data) |->
        [x |-> FormatNum(data[i].x - data[1].x), y |-> FormatNum(data[i].y - data[1].y),
         color |-> EncodeColor(data[i].color)]]

to_csv(data) ==
    [i \in 1..Len(data) |->
        [x |-> FormatNum(data[i].x), y |-> FormatNum(data[i].y),
         color |-> EncodeColor(data[i].color)]]

Row(x, y, code) == [x |-> FormatNum(x), y |-> FormatNum(y), color |-> FormatNum(code)]

\* Files the user can pick in the load dialog besides the one saved before.
ExternalFiles ==
    [ example |-> <<Row(0, 0, 0), Row(3, 0, 1), Row(10, 10, 2)>>,
      badcode |-> <<Row(-12, 1, 0), Row(2, 2, 3), Row(4, 4, 1)>> ]

----
\* The state of the program as one record, so that a callback that calls another
\* (releaseButton -> moveButton -> pressButton -> makeScatter) composes.
\* nScatter and nErase count the calls of makeScatter and _delete_points made by
\* the running callback.

St ==
    [ myData |-> myData, myPointsID |-> myPointsID, classPoint |-> classPoint,
      last_drawn_x |-> last_drawn_x, last_drawn_y |-> last_drawn_y,
      sigmaScatter |-> sigmaScatter, nbrPointsScatter |-> nbrPointsScatter,
      canvas |-> canvas, ovals |-> ovals, nextId |-> nextId, file |-> file, saved |-> saved,
      err |-> "none", nScatter |-> 0, nErase |-> 0 ]

Raise(s, exc) == [s EXCEPT !.err = exc]

\* The elements of seq whose index is not in del, in order.
RECURSIVE KeepFrom(_, _, _)
KeepFrom(seq, del, i) ==
    IF i > Len(seq) THEN <<>>
    ELSE (IF i \in del THEN <<>> ELSE <<seq[i]>>) \o KeepFrom(seq, del, i + 1)

Keep(seq, del) == KeepFrom(seq, del, 1)

\* create_oval's item: the bounding box of the marker of (x, y) and its fill.
Oval(x, y, fill) ==
    [x0 |-> x - sizePoint, y0 |-> y - sizePoint,
     x1 |-> x + sizePoint, y1 |-> y + sizePoint, fill |-> fill]

\* The items of f with the new ones, a function from a set of fresh ids.
WithItems(f, new) ==
    [id \in DOMAIN f \cup DOMAIN new |-> IF id \in DOMAIN new THEN new[id] ELSE f[id]]

\* The items of f but those with an id in ids.
WithoutItems(f, ids) == [id \in DOMAIN f \ ids |-> f[id]]

setClassMutant(s, color) == [s EXCEPT !.classPoint = color, !.last_drawn_x = None]

setClass(s, color) == [s EXCEPT !.classPoint = color]

_draw_point(s, x, y, pointClass) ==
    IF pointClass \notin TkColors
    THEN Raise(s, "TclError")
    ELSE [s EXCEPT !.canvas = @ \cup {s.nextId},
                   !.ovals = WithItems(@, [id \in {s.nextId} |-> Oval(x, y, pointClass)]),
                   !.nextId = @ + 1,
                   !.myPointsID = Append(@, s.nextId),
                   !.myData = Append(@, [x |-> x, y |-> y, color |-> pointClass])]

Dist2(p, ev) == (p.x - ev.x) * (p.x - ev.x) + (p.y - ev.y) * (p.y - ev.y)

lst_to_del(s, ev) ==
    LET thr == s.sigmaScatter * s.sigmaScatter
    IN  {i \in 1..Len(s.myData) : Dist2(s.myData[i], ev) <= thr}

_delete_points_mutant(s, ev) ==
    LET del == lst_to_del(s, ev)
    IN  [s EXCEPT !.canvas = @ \ {s.myPointsID[i] : i \in del},
                  !.ovals = WithoutItems(@, {s.myPointsID[i] : i \in del}),
                  !.myData = Keep(@, del),
                  !.nErase = @ + 1]

_delete_points_mutant_tail(s, ev) ==
    LET del == lst_to_del(s, ev)
    IN  [s EXCEPT !.canvas = @ \ {s.myPointsID[i] : i \in del},
                  !.ovals = WithoutItems(@, {s.myPointsID[i] : i \in del}),
                  !.myData = Keep(@, del),
                  !.myPointsID = SubSeq(@, 1, Len(@) - Cardinality(del)),
                  !.nErase = @ + 1]

_delete_points(s, ev) ==
    LET del == lst_to_del(s, ev)
    IN  IF \E i \in del : i > Len(s.myPointsID)
        THEN Raise([s EXCEPT !.nErase = @ + 1], "IndexError")
        ELSE [s EXCEPT !.canvas = @ \ {s.myPointsID[i] : i \in del},
                       !.ovals = WithoutItems(@, {s.myPointsID[i] : i \in del}),
                       !.myData = Keep(@, del),
                       !.myPointsID = Keep(@, del),
                       !.nErase = @ + 1]

clampSigma(v) == Max(Min(v, SigmaMax), 0)
clampPointsMutant(v) == Max(v, 0)

clampPoints(v) == Max(Min(v, PointsMax * CountScale), 0)
int(v) == v \div CountScale

makeScatter(s, ev, seed) ==
    LET ss == clampSigma(s.sigmaScatter)
        ps == clampPoints(s.nbrPointsScatter)
        n == int(ps)
        listX == normal(ev.x, ss, n, seed, 0)
        listY == normal(ev.y, ss, n, seed, n)
    IN  [s EXCEPT !.myData = @ \o [i \in 1..n |->
                        [x |-> listX[i], y |-> listY[i], color |-> s.classPoint]],
                  !.canvas = @ \cup {s.nextId + i - 1 : i \in 1..n},
                  !.ovals = WithItems(@, [id \in s.nextId..(s.nextId + n - 1) |->
                        Oval(listX[id - s.nextId + 1], listY[id - s.nextId + 1],
                             s.classPoint)]),
                  !.myPointsID = @ \o [i \in 1..n |-> s.nextId + i - 1],
                  !.nextId = @ + n,
                  !.nScatter = @ + 1]

pressButtonMutantRecord(s, ev, seed) ==
    LET s1 == [s EXCEPT !.last_drawn_x = Some(ev.x), !.last_drawn_y = Some(ev.x)]
    IN  IF s1.classPoint = "erase" THEN _delete_points(s1, ev)
        ELSE makeScatter(s1, ev, seed)

pressButtonMutantBoth(s, ev, seed) ==
    LET s1 == [s EXCEPT !.last_drawn_x = Some(ev.x), !.last_drawn_y = Some(ev.y)]
    IN  IF s1.classPoint = "erase" THEN makeScatter(_delete_points(s1, ev), ev, seed)
        ELSE makeScatter(s1, ev, seed)

pressButton(s, ev, seed) ==
    LET s1 == [s EXCEPT !.last_drawn_x = Some(ev.x), !.last_drawn_y = Some(ev.y)]
    IN  IF s1.classPoint = "erase" THEN _delete_points(s1, ev)
        ELSE makeScatter(s1, ev, seed)

move_distance(s, ev) ==
    (Val(s.last_drawn_x) - ev.x) * (Val(s.last_drawn_x) - ev.x)
        + (Val(s.last_drawn_y) - ev.y) * (Val(s.last_drawn_y) - ev.y)

moveButtonMutant(s, ev, seed) ==
    IF s.last_drawn_x = None THEN s
    ELSE IF move_distance(s, ev) >= threshold
         THEN pressButton(s, ev, seed)
         ELSE s

moveButtonMutantStrict(s, ev, seed) ==
    IF s.last_drawn_x = None THEN s
    ELSE IF move_distance(s, ev) > threshold * threshold
         THEN pressButton(s, ev, seed)
         ELSE s

moveButton(s, ev, seed) ==
    IF s.last_drawn_x = None THEN s
    ELSE IF move_distance(s, ev) >= threshold * threshold
         THEN pressButton(s, ev, seed)
         ELSE s

releaseButtonMutant(s, ev, seed) ==
    LET s1 == moveButton(s, ev, seed)
    IN  IF s1.err # "none" THEN s1
        ELSE [s1 EXCEPT !.last_drawn_x = None]

releaseButton(s, ev, seed) ==
    LET s1 == moveButton(s, ev, seed)
    IN  IF s1.err # "none" THEN s1
        ELSE [s1 EXCEPT !.last_drawn_x = None, !.last_drawn_y = None]

\* saveTo is None when the dialog is cancelled, Some(path) otherwise.
saveData(s, saveTo) ==
    IF saveTo = None THEN s
    ELSE [s EXCEPT !.file = Some(to_csv(s.myData)), !.saved = s.myData]

\* df.apply(..., axis=1): _draw_point on each row in turn, until one raises.
RECURSIVE applyRows(_, _, _)
applyRows(s, rows, i) ==
    IF i > Len(rows) THEN s
    ELSE LET s1 == _draw_point(s, ParseNum(rows[i].x), ParseNum(rows[i].y),
                               DecodeColor(rows[i].color))
         IN  IF s1.err # "none" THEN s1 ELSE applyRows(s1, rows, i + 1)

\* loadFrom is "" when the dialog is cancelled; read_csv("") finds no file.
read_csv(s, loadFrom) ==
    IF loadFrom = "saved" THEN s.file
    ELSE IF loadFrom \in DOMAIN ExternalFiles THEN Some(ExternalFiles[loadFrom])
    ELSE None

loadDataMutant(s, loadFrom) ==
    LET df == read_csv(s, loadFrom)
        s0 == [s EXCEPT !.canvas = @ \ {s.myPointsID[i] : i \in 1..Len(s.myPointsID)},
                        !.ovals = WithoutItems(@, {s.myPointsID[i] : i \in 1..Len(s.myPointsID)}),
                        !.myPointsID = <<>>,
                        !.myData = <<>>]
    IN  IF df = None THEN Raise(s, "FileNotFoundError")
        ELSE applyRows(s0, Val(df), 1)

loadData(s, loadFrom) ==
    LET df == read_csv(s, loadFrom)
    IN  IF df = None THEN Raise(s, "FileNotFoundError")
        ELSE applyRows(s, Val(df), 1)

clearCanvasMutant(s) == [s EXCEPT !.myPointsID = <<>>, !.myData = <<>>]

clearCanvasMutantRaise(s) ==
    IF Len(s.myData) = 0 THEN Raise(s, "IndexError")
    ELSE [s EXCEPT !.canvas = @ \ {s.myPointsID[i] : i \in 1..Len(s.myPointsID)},
                   !.ovals = WithoutItems(@, {s.myPointsID[i] : i \in 1..Len(s.myPointsID)}),
                   !.myPointsID = <<>>,
                   !.myData = <<>>]

clearCanvas(s) ==
    [s EXCEPT !.canvas = @ \ {s.myPointsID[i] : i \in 1..Len(s.myPointsID)},
              !.ovals = WithoutItems(@, {s.myPointsID[i] : i \in 1..Len(s.myPointsID)}),
              !.myPointsID = <<>>,
              !.myData = <<>>]

pop(seq) == SubSeq(seq, 1, Len(seq) - 1)

undoMutantFirst(s) ==
    IF Len(s.myData) = 0 THEN Raise(s, "IndexError")
    ELSE [s EXCEPT !.myData = Tail(@),
                   !.canvas = @ \ {s.myPointsID[1]},
                   !.ovals = WithoutItems(@, {s.myPointsID[1]}),
                   !.myPointsID = Tail(@)]

undoMutantSilent(s) ==
    IF Len(s.myData) = 0 THEN s
    ELSE [s EXCEPT !.myData = pop(@),
                   !.canvas = @ \ {s.myPointsID[Len(s.myPointsID)]},
                   !.ovals = WithoutItems(@, {s.myPointsID[Len(s.myPointsID)]}),
                   !.myPointsID = pop(@)]

undoMutantOrphan(s) ==
    IF Len(s.myData) = 0 THEN Raise(s, "IndexError")
    ELSE [s EXCEPT !.myData = pop(@), !.myPointsID = pop(@)]

undo(s) ==
    IF Len(s.myData) = 0 THEN Raise(s, "IndexError")
    ELSE LET s1 == [s EXCEPT !.myData = pop(@)]
         IN  IF Len(s1.myPointsID) = 0 THEN Raise(s1, "IndexError")
             ELSE [s1 EXCEPT !.canvas = @ \ {s.myPointsID[Len(s.myPointsID)]},
                             !.ovals = WithoutItems(@, {s.myPointsID[Len(s.myPointsID)]}),
                             !.myPointsID = pop(@)]

----
\* The callbacks as actions.

NoEvent == [x |-> 0, y |-> 0]

\* A callback that would create canvas items runs only while nextId <= cap.
Bounded(s, cap) == s.nextId = nextId \/ nextId <= cap

Commit(s, name, ev, arg) ==
    /\ myData' = s.myData
    /\ myPointsID' = s.myPointsID
    /\ classPoint' = s.classPoint
    /\ last_drawn_x' = s.last_drawn_x
    /\ last_drawn_y' = s.last_drawn_y
    /\ sigmaScatter' = s.sigmaScatter
    /\ nbrPointsScatter' = s.nbrPointsScatter
    /\ canvas' = s.canvas
    /\ ovals' = s.ovals
    /\ nextId' = s.nextId
    /\ file' = s.file
    /\ saved' = s.saved
    /\ err' = s.err
    /\ op' = [name |-> name, ev |-> ev, arg |-> arg,
              nScatter |-> s.nScatter, nErase |-> s.nErase]

Init ==
    /\ myData = <<>>
    /\ myPointsID = <<>>
    /\ classPoint = "blue"
    /\ last_drawn_x = None
    /\ last_drawn_y = None
    /\ sigmaScatter = InitSigma
    /\ nbrPointsScatter = InitNbrPoints * CountScale
    /\ canvas = {}
    /\ ovals = <<>>
    /\ nextId = 1
    /\ file = None
    /\ saved = <<>>
    /\ err = "none"
    /\ op = [name |-> "init", ev |-> NoEvent, arg |-> "", nScatter |-> 0, nErase |-> 0]

PressAt(ev, seed, cap) ==
    LET s == pressButton(St, ev, seed)
    IN  Bounded(s, cap) /\ Commit(s, "press", ev, "")

MoveAt(ev, seed, cap) ==
    LET s == moveButton(St, ev, seed)
    IN  Bounded(s, cap) /\ Commit(s, "move", ev, "")

ReleaseAt(ev, seed, cap) ==
    LET s == releaseButton(St, ev, seed)
    IN  Bounded(s, cap) /\ Commit(s, "release", ev, "")

LoadFrom(loadFrom, cap) ==
    LET s == loadData(St, loadFrom)
    IN  Bounded(s, cap) /\ Commit(s, "load", NoEvent, loadFrom)

SetClass ==
    \E color \in Classes : Commit(setClass(St, color), "setClass", NoEvent, color)

Press == \E ev \in Positions, seed \in Seeds : PressAt(ev, seed, MaxId)

Move == \E ev \in Positions, seed \in Seeds : MoveAt(ev, seed, MaxId)

Release == \E ev \in Positions, seed \in Seeds : ReleaseAt(ev, seed, MaxId)

Load == \E loadFrom \in {""} \cup DOMAIN ExternalFiles : LoadFrom(loadFrom, MaxId)

Clear == Commit(clearCanvas(St), "clear", NoEvent, "")

Undo == Commit(undo(St), "undo", NoEvent, "")

\* The user edits the two entries bound to the DoubleVars, before the first marker
\* is drawn.
SetSigma ==
    \E v \in Sigmas :
        /\ nextId = 1
        /\ sigmaScatter' = v
        /\ UNCHANGED <<myData, myPointsID, classPoint, last_drawn_x, last_drawn_y,
                       nbrPointsScatter, canvas, ovals, nextId, file, saved, err, op>>

SetNbrPoints ==
    \E v \in Counts :
        /\ nextId = 1
        /\ nbrPointsScatter' = v
        /\ UNCHANGED <<myData, myPointsID, classPoint, last_drawn_x, last_drawn_y,
                       sigmaScatter, canvas, ovals, nextId, file, saved, err, op>>

Next ==
    \/ SetClass
    \/ Press
    \/ Move
    \/ Release
    \/ Load
    \/ Clear
    \/ Undo
    \/ SetSigma
    \/ SetNbrPoints

\* The drawing session: everything but saving.
Spec == Init /\ [][Next]_vars

----
\* Saving and loading back: a first press with the initial settings, loads, undo
\* and clear build the store that is saved.

Save ==
    \E saveTo \in {None, Some("saved")} :
        Commit(saveData(St, saveTo), "save", NoEvent,
               IF saveTo = None THEN "" ELSE Val(saveTo))

FileLoad ==
    \E loadFrom \in {""} \cup DOMAIN ExternalFiles
                    \cup (IF file = None THEN {} ELSE {"saved"}) :
        LoadFrom(loadFrom, MaxLoadId)

\* A press draws the first markers of the session.
FilePress == \E ev \in Positions, seed \in Seeds : PressAt(ev, seed, 1)

NextFile ==
    \/ FilePress
    \/ Save
    \/ FileLoad
    \/ Clear
    \/ Undo

SpecFile == Init /\ [][NextFile]_vars

----
\* The clamping of the two settings: any values in the entries, then one press.

InitClamp ==
    /\ myData = <<>>
    /\ myPointsID = <<>>
    /\ classPoint = "blue"
    /\ last_drawn_x = None
    /\ last_drawn_y = None
    /\ sigmaScatter \in ClampSigmas
    /\ nbrPointsScatter \in ClampCounts
    /\ canvas = {}
    /\ ovals = <<>>
    /\ nextId = 1
    /\ file = None
    /\ saved = <<>>
    /\ err = "none"
    /\ op = [name |-> "init", ev |-> NoEvent, arg |-> "", nScatter |-> 0, nErase |-> 0]

ClampPress == \E ev \in Positions, seed \in ClampSeeds : PressAt(ev, seed, 1)

NextClamp == ClampPress

SpecClamp == InitClamp /\ [][NextClamp]_vars

----
\* C1  Alignment: after every callback (a failed one included) the point list and
\* the handle list have the same length.
Alignment == Len(myData) = Len(myPointsID)

\* An erase-mode press has removed some points and left others.
AlignmentWitness ==
    /\ op.name = "press" /\ op.nErase = 1
    /\ Len(myData) >= 1
    /\ Len(myData) < nextId - 1

\* C2  Erase correctness as claimed: an erase-mode press at (x, y) removes exactly
\* the points whose Euclidean distance to (x, y) is <= the sigma setting, and keeps
\* the others in order.
WithinRadius(p, ev, radius) == radius >= 0 /\ Dist2(p, ev) <= radius * radius

EraseWithinRadius ==
    [][ (op'.name = "press" /\ classPoint = "erase") =>
            LET Kept(p) == ~WithinRadius(p, op'.ev, sigmaScatter)
            IN  myData' = SelectSeq(myData, Kept) ]_vars

\* C3  Undo on a non-empty store removes exactly the last point and its marker.
UndoRemovesLast ==
    [][ (op'.name = "undo" /\ Len(myData) > 0) =>
            /\ err' = "none"
            /\ myData' = SubSeq(myData, 1, Len(myData) - 1)
            /\ myPointsID' = SubSeq(myPointsID, 1, Len(myPointsID) - 1)
            /\ canvas' = canvas \ {myPointsID[Len(myPointsID)]} ]_vars

UndoWitness == op.name = "undo" /\ err = "none" /\ Len(myData) >= 2

\* C4  Undo on an empty store fails with the empty-list error and changes nothing.
UndoEmptyFails ==
    [][ (op'.name = "undo" /\ Len(myData) = 0) =>
            /\ err' = "IndexError"
            /\ myData' = <<>>
            /\ myPointsID' = <<>>
            /\ canvas' = canvas ]_vars

UndoEmptyWitness ==
    op.name = "undo" /\ err = "IndexError" /\ myData = <<>> /\ myPointsID = <<>>

\* C5  Clamping: a draw-mode press on the empty store samples with sigma clamped to
\* [0, 50] and adds exactly clamp(count, 0, 1000) points, truncated; with sigma =
\* 1000 and count = 5000 the result is the one of sigma = 50 and count = 1000.
ClaimedSigma(v) == IF v < 0 THEN 0 ELSE IF v > 50 THEN 50 ELSE v
ClaimedCount(v) ==
    IF v < 0 THEN 0 ELSE IF v > 1000 * CountScale THEN 1000 ELSE v \div CountScale

FreshSt(sigma, nbr) ==
    [St EXCEPT !.myData = <<>>, !.myPointsID = <<>>, !.canvas = {}, !.ovals = <<>>, !.nextId = 1,
               !.last_drawn_x = None, !.last_drawn_y = None,
               !.sigmaScatter = sigma, !.nbrPointsScatter = nbr]

ClampedScatter ==
    op.name = "press" =>
        LET cs == ClaimedSigma(sigmaScatter)
            n == ClaimedCount(nbrPointsScatter)
        IN  /\ Len(myData) = n
            /\ Len(myPointsID) = n
            /\ \E seed \in ClampSeeds :
                  \A i \in 1..n :
                      /\ myData[i].x = op.ev.x + cs * gauss(seed, i)
                      /\ myData[i].y = op.ev.y + cs * gauss(seed, n + i)
            /\ (sigmaScatter = 1000 /\ nbrPointsScatter = 5000 * CountScale) =>
                  \E seed \in ClampSeeds :
                      LET r == pressButton(FreshSt(50, 1000 * CountScale), op.ev, seed)
                      IN  /\ myData = r.myData
                          /\ myPointsID = r.myPointsID
                          /\ canvas = r.canvas

ClampWitness ==
    /\ op.name = "press"
    /\ sigmaScatter = 1000 /\ nbrPointsScatter = 5000 * CountScale
    /\ Len(myData) = 1000

\* C6  Drag debounce: while dragging, a move at squared distance below 25 from the
\* last sampled position samples nothing; one at squared distance 36 samples exactly
\* one more cluster.
DragDebounce ==
    [][ (op'.name = "move" /\ last_drawn_x # None) =>
            LET d == move_distance(St, op'.ev)
            IN  /\ d < 25 =>
                      /\ op'.nScatter = 0
                      /\ myData' = myData
                      /\ myPointsID' = myPointsID
                /\ (d = 36 /\ classPoint # "erase") =>
                      /\ op'.nScatter = 1
                      /\ op'.nErase = 0
                      /\ Len(myData') = Len(myData) + nbrPointsScatter \div CountScale ]_vars

\* A press at (0, 0) and then a move to (6, 0), each sampling one point.
DragWitness ==
    /\ op.name = "move" /\ op.nScatter = 1
    /\ op.ev = [x |-> 6, y |-> 0]
    /\ sigmaScatter = -5
    /\ Len(myData) = 2
    /\ myData[1].x = 0 /\ myData[1].y = 0
    /\ myData[2].x = 6

CancelIsNoOp ==
    [][ (op'.name \in {"save", "load"} /\ op'.arg = "") =>
            /\ err' = "none"
            /\ file' = file
            /\ myData' = myData
            /\ myPointsID' = myPointsID
            /\ canvas' = canvas ]_vars

ClearEmpties ==
    [][ op'.name = "clear" =>
            /\ err' = "none"
            /\ myData' = <<>>
            /\ myPointsID' = <<>>
            /\ \A i \in 1..Len(myPointsID) : myPointsID[i] \notin canvas' ]_vars

\* Clear has run on a store that held markers.
ClearWitness ==
    /\ op.name = "clear"
    /\ myData = <<>> /\ myPointsID = <<>>
    /\ nextId > 2
    /\ canvas = {}

----
\* A step that is the callback called name: the steps that edit one of the two
\* entries call nothing and leave op as it was.
Called(name) ==
    /\ op'.name = name
    /\ sigmaScatter' = sigmaScatter
    /\ nbrPointsScatter' = nbrPointsScatter

\* C11  A press records the press position as the last sampled position.  In
\* erase mode it only erases: the store does not grow and what is left of it is
\* made of points that were in it.  In any other mode it only samples a cluster:
\* the points and handles that were there stay as they were, and every appended
\* point carries the current class.
PressDispatch ==
    [][ Called("press") =>
            /\ err' = "none"
            /\ last_drawn_x' = Some(op'.ev.x)
            /\ last_drawn_y' = Some(op'.ev.y)
            /\ classPoint = "erase" =>
                    /\ op'.nErase = 1 /\ op'.nScatter = 0
                    /\ Len(myData') <= Len(myData)
                    /\ nextId' = nextId
                    /\ \A j \in 1..Len(myData') : \E i \in 1..Len(myData) :
                            myData'[j] = myData[i] /\ myPointsID'[j] = myPointsID[i]
            /\ classPoint # "erase" =>
                    /\ op'.nScatter = 1 /\ op'.nErase = 0
                    /\ Len(myData') >= Len(myData)
                    /\ SubSeq(myData', 1, Len(myData)) = myData
                    /\ SubSeq(myPointsID', 1, Len(myPointsID)) = myPointsID
                    /\ \A j \in (Len(myData) + 1)..Len(myData') :
                            myData'[j].color = classPoint ]_vars

\* A press in a drawing mode has appended points to a store that had some, at a
\* position whose two coordinates differ.
PressDispatchWitness ==
    /\ op.name = "press" /\ op.nScatter = 1
    /\ op.ev.x # op.ev.y
    /\ last_drawn_x = Some(op.ev.x)
    /\ Len(myData) = nextId - 1 /\ Len(myData) >= 2
    /\ myData[1].color # myData[Len(myData)].color

\* C12 as stated  While dragging, a move is treated as a new press only if its
\* squared distance from the last sampled position exceeds 25; any other move
\* changes neither the store nor the last sampled position.
MoveThresholdExceeds ==
    [][ (Called("move") /\ last_drawn_x # None) =>
            LET d == move_distance(St, op'.ev)
            IN  /\ d > 25 =>
                      /\ op'.nScatter + op'.nErase = 1
                      /\ last_drawn_x' = Some(op'.ev.x)
                      /\ last_drawn_y' = Some(op'.ev.y)
                /\ ~(d > 25) =>
                      /\ op'.nScatter + op'.nErase = 0
                      /\ myData' = myData /\ myPointsID' = myPointsID
                      /\ canvas' = canvas
                      /\ last_drawn_x' = last_drawn_x
                      /\ last_drawn_y' = last_drawn_y ]_vars

\* C12  While dragging, a move is treated as a new press (one sample or one
\* erase, in the mode of the moment, and the last sampled position becomes the
\* position of the move) exactly when its squared distance from the last sampled
\* position is at least 25; any other move changes neither the store nor the last
\* sampled position.
MoveThreshold ==
    [][ (Called("move") /\ last_drawn_x # None) =>
            LET d == move_distance(St, op'.ev)
            IN  /\ d >= 25 =>
                      /\ op'.nScatter = (IF classPoint = "erase" THEN 0 ELSE 1)
                      /\ op'.nErase = (IF classPoint = "erase" THEN 1 ELSE 0)
                      /\ last_drawn_x' = Some(op'.ev.x)
                      /\ last_drawn_y' = Some(op'.ev.y)
                /\ d < 25 =>
                      /\ op'.nScatter + op'.nErase = 0
                      /\ myData' = myData /\ myPointsID' = myPointsID
                      /\ canvas' = canvas
                      /\ last_drawn_x' = last_drawn_x
                      /\ last_drawn_y' = last_drawn_y ]_vars

\* A move to (4, 3) has sampled: the last sample was at (0, 0), at squared
\* distance exactly 25 ((6, 0) is at 13, (4, 3) itself at 0).
MoveThresholdWitness ==
    /\ op.name = "move" /\ op.nScatter = 1
    /\ op.ev = [x |-> 4, y |-> 3]
    /\ last_drawn_x = Some(4) /\ last_drawn_y = Some(3)
    /\ Len(myData) >= 2

PureSetter ==
    [][ /\ Called("setClass") =>
              /\ classPoint' = op'.arg
              /\ err' = "none"
              /\ myData' = myData /\ myPointsID' = myPointsID
              /\ canvas' = canvas /\ nextId' = nextId
              /\ last_drawn_x' = last_drawn_x /\ last_drawn_y' = last_drawn_y
              /\ op'.nScatter + op'.nErase = 0
        /\ ( /\ op.name = "setClass"
             /\ Called("press") \/ Called("move") \/ Called("release")
             /\ op'.nScatter + op'.nErase > 0 ) =>
              /\ op'.nErase = (IF op.arg = "erase" THEN 1 ELSE 0)
              /\ op'.nScatter = (IF op.arg = "erase" THEN 0 ELSE 1)
              /\ \A j \in (Len(myData) + 1)..Len(myData') : myData'[j].color = op.arg
        /\ \A i \in 1..Len(myPointsID), j \in 1..Len(myPointsID') :
              (myPointsID'[j] = myPointsID[i] /\ i <= Len(myData) /\ j <= Len(myData'))
                  => myData'[j] = myData[i] ]_vars

\* The class was changed in the middle of a drag: the press sampled a point of one
\* class, and the move across the threshold a point of the class set since.
PureSetterWitness ==
    /\ op.name = "move" /\ op.nScatter = 1
    /\ Len(myData) = 2 /\ nextId = 3
    /\ myData[1].color # myData[2].color
    /\ myData[2].color = classPoint

\* C15  Index pairing: in every state, for every index i the handle at position i
\* is an item of the canvas, and that item is the marker that was created for the
\* point at position i: the oval around its coordinates, filled with its label.
IndexPairing ==
    \A i \in 1..Len(myPointsID) :
        /\ i <= Len(myData)
        /\ myPointsID[i] \in DOMAIN ovals
        /\ ovals[myPointsID[i]] = Oval(myData[i].x, myData[i].y, myData[i].color)

\* An erase-mode press has removed the first point and left a later one, which
\* moved to a lower index in both lists.
IndexPairingWitness ==
    /\ op.name = "press" /\ op.nErase = 1
    /\ Len(myData) >= 1
    /\ myPointsID[1] > 1
    /\ 1 \notin canvas

\* C16  Import appends: loading a well-formed table of n rows (the example file,
\* or the file saved before) raises nothing and adds its n rows as n points, in
\* row order and with the decoded labels, after the points that were there, each
\* with a marker of its own; the points and handles that were there are unchanged.
ImportAppends ==
    [][ (Called("load") /\ op'.arg \in {"example", "saved"}) =>
            LET rows == IF op'.arg = "saved" THEN saved
                        ELSE << [x |-> 0, y |-> 0, color |-> "red"],
                                [x |-> 3, y |-> 0, color |-> "green"],
                                [x |-> 10, y |-> 10, color |-> "blue"] >>
                n == Len(rows)
            IN  /\ err' = "none"
                /\ myData' = myData \o rows
                /\ myPointsID' = myPointsID \o [k \in 1..n |-> nextId + k - 1]
                /\ nextId' = nextId + n
                /\ canvas' = canvas \cup (nextId..(nextId + n - 1)) ]_vars

\* The example file was loaded into a store that had points: they are still there,
\* before the three of the file.
ImportWitness ==
    /\ op.name = "load" /\ op.arg = "example" /\ err = "none"
    /\ Len(myData) > 3
    /\ myData[Len(myData) - 2] = [x |-> 0, y |-> 0, color |-> "red"]
    /\ myPointsID[1] < myPointsID[Len(myData) - 2]

MarkerLiveness ==
    /\ canvas = {myPointsID[i] : i \in 1..Len(myPointsID)}
    /\ DOMAIN ovals = canvas
    /\ \A i, j \in 1..Len(myPointsID) : myPointsID[i] = myPointsID[j] => i = j

\* An undo has deleted the last marker created and left earlier ones.
MarkerLivenessWitness ==
    /\ op.name = "undo" /\ err = "none"
    /\ canvas # {}
    /\ (nextId - 1) \notin canvas
    /\ Cardinality(canvas) = Len(myPointsID)

\* C19  No point of the store carries the label "erase": every point is labelled
\* red, green or blue, and to_csv encodes its label as 0, 1 or 2.
NoEraseLabel ==
    \A i \in 1..Len(myData) :
        /\ myData[i].color # "erase"
        /\ myData[i].color \in Colors
        /\ to_csv(myData)[i].color \in {FormatNum(0), FormatNum(1), FormatNum(2)}

\* In erase mode, in the middle of a drag, a move across the threshold has erased
\* and the store still has points.
NoEraseLabelWitness ==
    /\ op.name = "move" /\ op.nErase = 1
    /\ classPoint = "erase"
    /\ Len(myData) >= 1
====
